---------------------------- MODULE Spec2Model ----------------------------
(***************************************************************************)
(* A model of megaboom.py: the label store (_migrate_cfg, load_cfg,        *)
(* save_cfg, remember_device, get_default_device), label derivation        *)
(* (derive_label), strongest-match selection (find_device / cmd_scan) and  *)
(* the three commands of main (scan, power-id, power).                     *)
(*                                                                         *)
(* Python values are modelled as follows.                                  *)
(*   - a str is a sequence of one-character strings, so that strip(),      *)
(*     lower() and the substring test are computed and not looked up;     *)
(*   - a JSON scalar is a record [k, s]: k is "str", "int", "none" (JSON   *)
(*     null / Python None) or "absent" (the key is not in the mapping);    *)
(*   - a dict is a sequence of items with distinct keys, in insertion      *)
(*     order (next(iter(d)) is the first item).                            *)
(* Keys of the config other than devices, default_device, ble_id and       *)
(* name_hint are carried through _migrate_cfg untouched and are left out.  *)
(***************************************************************************)
EXTENDS Integers, Sequences, FiniteSets, TLC

VARIABLES
    pc,             \* position of the run being modelled
    raw,            \* SpecMigrate: the parsed JSON handed to _migrate_cfg
    once,           \* SpecMigrate: _migrate_cfg(raw)
    twice,          \* SpecMigrate: _migrate_cfg(_migrate_cfg(raw))
    largs,          \* SpecLabel: the arguments of derive_label
    derived,        \* SpecLabel: what derive_label returned
    found,          \* SpecRank: what scan_devices returned
    wanted,         \* SpecRank: the substring find_device looks for
    chosen,         \* SpecRank: position in found of the device find_device returned
    file,           \* Spec: the config file at CFG_PATH
    before,         \* Spec: the config file when the last run started
    last,           \* Spec: the last run of main: its arguments and what it did
    runs            \* Spec: number of runs of main so far

migVars == <<raw, once, twice>>
lblVars == <<largs, derived>>
rankVars == <<found, wanted, chosen>>
cliVars == <<file, before, last, runs>>
vars == <<pc, migVars, lblVars, rankVars, cliVars>>

---------------------------------------------------------------------------
(* Bounds of the model. *)

\* number of items of the devices mapping handed to _migrate_cfg
MaxDevices == 2

\* number of devices a scan returns
MaxFound == 4

\* number of runs of main
MaxRuns == 2

\* line 20: hex digits of a MAC address
MacHexLength == 12

---------------------------------------------------------------------------
(* Python strings and scalars. *)

Str(s) == [k |-> "str", s |-> s]
None == [k |-> "none", s |-> <<>>]
Absent == [k |-> "absent", s |-> <<>>]
Num(digits) == [k |-> "int", s |-> digits]

\* bool(v): a non-empty str, a non-zero int
Truthy(v) ==
    CASE v.k = "str" -> v.s # <<>>
      [] v.k = "int" -> v.s # <<"0">>
      [] OTHER -> FALSE

\* isinstance(v, str)
IsStr(v) == v.k = "str"

\* dict.get(key): a missing key reads as None
Get(v) == IF v = Absent THEN None ELSE v

DEFAULT == <<"d", "e", "f", "a", "u", "l", "t">>

UpperCase ==
    <<"A", "B", "C", "D", "E", "F", "G", "H", "I", "J", "K", "L", "M",
      "N", "O", "P", "Q", "R", "S", "T", "U", "V", "W", "X", "Y", "Z">>
LowerCase ==
    <<"a", "b", "c", "d", "e", "f", "g", "h", "i", "j", "k", "l", "m",
      "n", "o", "p", "q", "r", "s", "t", "u", "v", "w", "x", "y", "z">>

\* the lower-case letter of every upper-case letter
LowerOf ==
    [c \in {UpperCase[i] : i \in 1..Len(UpperCase)} |->
        LowerCase[CHOOSE i \in 1..Len(UpperCase) : UpperCase[i] = c]]

LowerChar(c) == IF c \in DOMAIN LowerOf THEN LowerOf[c] ELSE c

RECURSIVE lower(_)
\* str.lower()
lower(s) == IF s = <<>> THEN <<>> ELSE <<LowerChar(Head(s))>> \o lower(Tail(s))

\* sub in s
Contains(sub, s) ==
    \E i \in 0..(Len(s) - Len(sub)) : SubSeq(s, i + 1, i + Len(sub)) = sub

IsSpace(c) == c \in {" ", "\t", "\n", "\r"}

RECURSIVE lstrip(_)
lstrip(s) == IF s # <<>> /\ IsSpace(Head(s)) THEN lstrip(Tail(s)) ELSE s

RECURSIVE rstrip(_)
rstrip(s) ==
    IF s # <<>> /\ IsSpace(s[Len(s)]) THEN rstrip(SubSeq(s, 1, Len(s) - 1)) ELSE s

\* str.strip()
strip(s) == rstrip(lstrip(s))

RECURSIVE Remove(_, _)
\* s.replace(c, "")
Remove(s, c) ==
    IF s = <<>> THEN <<>>
    ELSE (IF Head(s) = c THEN <<>> ELSE <<Head(s)>>) \o Remove(Tail(s), c)

---------------------------------------------------------------------------
(* Dicts: sequences of [label, entry] items with distinct labels. *)

Keys(items) == {items[i].label : i \in 1..Len(items)}

HasKey(items, label) == label \in Keys(items)

IndexOf(items, label) == CHOOSE i \in 1..Len(items) : items[i].label = label

\* d[label] = entry: replaces in place, or appends a new key at the end
Put(items, label, entry) ==
    IF HasKey(items, label)
    THEN [items EXCEPT ![IndexOf(items, label)] = [label |-> label, entry |-> entry]]
    ELSE Append(items, [label |-> label, entry |-> entry])

NoEntry == [isdict |-> FALSE, ble_id |-> Absent, name_hint |-> Absent]
EmptyEntry == [isdict |-> TRUE, ble_id |-> Absent, name_hint |-> Absent]

\* d.get(label, {})
Lookup(items, label) ==
    IF HasKey(items, label) THEN items[IndexOf(items, label)].entry ELSE EmptyEntry

NotADict == [isdict |-> FALSE, items |-> <<>>]
Dict(items) == [isdict |-> TRUE, items |-> items]

\* a root that is not a mapping (null, a list, a number)
NotACfg ==
    [isdict |-> FALSE, devices |-> NotADict, default_device |-> Absent,
     ble_id |-> Absent, name_hint |-> Absent]
EmptyCfg ==
    [isdict |-> TRUE, devices |-> NotADict, default_device |-> Absent,
     ble_id |-> Absent, name_hint |-> Absent]

---------------------------------------------------------------------------
(* _migrate_cfg *)

\* lines 56-67: keep the dict entries that hold a truthy ble_id or name_hint,
\* and of those only the truthy fields
RECURSIVE CleanDevices(_)
CleanDevices(items) ==
    IF items = <<>> THEN <<>>
    ELSE LET it == Head(items)
             ble_id == Get(it.entry.ble_id)
             name_hint == Get(it.entry.name_hint)
             rest == CleanDevices(Tail(items))
         IN IF it.entry.isdict /\ (Truthy(ble_id) \/ Truthy(name_hint))
            THEN <<[label |-> it.label,
                    entry |-> [isdict |-> TRUE,
                               ble_id |-> IF Truthy(ble_id) THEN ble_id ELSE Absent,
                               name_hint |-> IF Truthy(name_hint) THEN name_hint ELSE Absent]]>>
                 \o rest
            ELSE rest

\* line 69
ReadDefault(cfg) ==
    IF IsStr(Get(cfg.default_device)) THEN cfg.default_device ELSE None

LegacyLabelAlwaysDefault(default_device) == DEFAULT

\* line 73: legacy_label = default_device or "default"
LegacyLabel(default_device) ==
    IF Truthy(default_device) THEN default_device.s ELSE DEFAULT

\* lines 74-78: the entry under legacy_label with the flat keys filled in
\* where the entry has none (setdefault)
LegacyEntry(cfg, devices, legacy_label) ==
    LET entry == Lookup(devices, legacy_label)
    IN [isdict |-> TRUE,
        ble_id |-> IF Truthy(Get(cfg.ble_id)) /\ entry.ble_id = Absent
                   THEN cfg.ble_id ELSE entry.ble_id,
        name_hint |-> IF Truthy(Get(cfg.name_hint)) /\ entry.name_hint = Absent
                      THEN cfg.name_hint ELSE entry.name_hint]

\* lines 72-81: <<devices, default_device>> after the legacy flat keys are folded in
LegacyFold(cfg, devices, default_device) ==
    IF cfg.ble_id # Absent \/ cfg.name_hint # Absent
    THEN LET legacy_label == LegacyLabel(default_device)
             entry == LegacyEntry(cfg, devices, legacy_label)
         IN IF entry # EmptyEntry
            THEN <<Put(devices, legacy_label, entry),
                   IF Truthy(default_device) THEN default_device ELSE Str(legacy_label)>>
            ELSE <<devices, default_device>>
    ELSE <<devices, default_device>>

\* the two repairs of lines 83-86 in the other order
RepairDefaultSwapped(devices, default_device) ==
    LET picked == IF default_device = None /\ devices # <<>>
                  THEN Str(devices[1].label) ELSE default_device
    IN IF Truthy(picked) /\ ~HasKey(devices, picked.s) THEN None ELSE picked

\* lines 83-86
RepairDefault(devices, default_device) ==
    LET kept == IF Truthy(default_device) /\ ~HasKey(devices, default_device.s)
                THEN None ELSE default_device
    IN IF kept = None /\ devices # <<>> THEN Str(devices[1].label) ELSE kept

\* lines 52-92
_migrate_cfg(cfg_in) ==
    LET cfg == IF cfg_in.isdict THEN cfg_in ELSE EmptyCfg
        devices_in == IF cfg.devices.isdict THEN cfg.devices.items ELSE <<>>
        folded == LegacyFold(cfg, CleanDevices(devices_in), ReadDefault(cfg))
    IN [isdict |-> TRUE,
        devices |-> Dict(folded[1]),
        default_device |-> RepairDefault(folded[1], folded[2]),
        ble_id |-> Absent,
        name_hint |-> Absent]

---------------------------------------------------------------------------
(* derive_label.  A device is either a plain identifier string (what        *)
(* power-id passes) or an object with attributes; name and address are      *)
(* Absent when the object has no such attribute.                            *)

PlainId(s) == [isstr |-> TRUE, s |-> s, name |-> Absent, address |-> Absent]
Rich(name, address) == [isstr |-> FALSE, s |-> <<>>, name |-> name, address |-> address]

\* the name hint ranked above the explicit label
derive_label_hint_first(explicit_label, name_hint, device) ==
    IF Truthy(name_hint) THEN name_hint
    ELSE IF Truthy(explicit_label) THEN explicit_label
    ELSE IF device.isstr THEN Str(device.s)
    ELSE IF Truthy(Get(device.name)) THEN device.name
    ELSE IF device.address # Absent THEN device.address
    ELSE Str(DEFAULT)

\* lines 133-142
derive_label(explicit_label, name_hint, device) ==
    IF Truthy(explicit_label) THEN explicit_label
    ELSE IF Truthy(name_hint) THEN name_hint
    ELSE IF device.isstr THEN Str(device.s)
    ELSE IF Truthy(Get(device.name)) THEN device.name
    ELSE IF device.address # Absent THEN device.address
    ELSE Str(DEFAULT)

---------------------------------------------------------------------------
(* get_rssi and the strongest match.  A scan result is a device with its    *)
(* advertisement folded in: rssi is the device's attribute, adv_rssi the    *)
(* advertisement's; a signal is [k |-> "none"] or [k |-> "int", n |-> dBm]. *)

NoSignal == [k |-> "none", n |-> 0]
Signal(n) == [k |-> "int", n |-> n]

\* a BLEDevice with the rssi of its AdvertisementData
Device(name, address, rssi, adv_rssi) ==
    [isstr |-> FALSE, s |-> <<>>, name |-> name, address |-> address,
     rssi |-> rssi, adv_rssi |-> adv_rssi]

\* lines 145-153 (no result of this model carries a metadata mapping)
get_rssi(d) == IF d.rssi # NoSignal THEN d.rssi ELSE d.adv_rssi

\* line 236: d.name and name_substring.lower() in d.name.lower()
Matches(d, substring) ==
    /\ Truthy(d.name)
    /\ IsStr(d.name)
    /\ Contains(lower(substring), lower(d.name.s))

RECURSIVE MatchIndexes(_, _, _)
\* line 236: the positions in found of the matches, in scan order
MatchIndexes(fnd, substring, i) ==
    IF i > Len(fnd) THEN <<>>
    ELSE (IF Matches(fnd[i], substring) THEN <<i>> ELSE <<>>)
         \o MatchIndexes(fnd, substring, i + 1)

\* the sort key (x[2] is not None, x[2]) of line 240, compared as tuples
KeyLess(a, b) ==
    \/ a.k = "none" /\ b.k = "int"
    \/ a.k = "int" /\ b.k = "int" /\ a.n < b.n

\* an ascending sort
InsertAscending(sorted, i, fnd) ==
    LET ahead == {j \in 1..Len(sorted) :
                    ~KeyLess(get_rssi(fnd[i]), get_rssi(fnd[sorted[j]]))}
        n == Cardinality(ahead)
    IN SubSeq(sorted, 1, n) \o <<i>> \o SubSeq(sorted, n + 1, Len(sorted))

\* one step of the stable descending sort: i goes behind every element whose
\* key is not smaller than its own
InsertDescending(sorted, i, fnd) ==
    LET ahead == {j \in 1..Len(sorted) :
                    ~KeyLess(get_rssi(fnd[sorted[j]]), get_rssi(fnd[i]))}
        n == Cardinality(ahead)
    IN SubSeq(sorted, 1, n) \o <<i>> \o SubSeq(sorted, n + 1, Len(sorted))

RECURSIVE SortMatches(_, _)
\* line 240: matches.sort(key=..., reverse=True), a stable sort
SortMatches(matches, fnd) ==
    IF matches = <<>> THEN <<>>
    ELSE InsertDescending(SortMatches(SubSeq(matches, 1, Len(matches) - 1), fnd),
                          matches[Len(matches)], fnd)

\* lines 234-241: the position in found of matches[0][0]; 0 stands for the
\* RuntimeError raised when nothing matches
find_device(substring, fnd) ==
    LET matches == MatchIndexes(fnd, substring, 1)
    IN IF matches = <<>> THEN 0 ELSE SortMatches(matches, fnd)[1]

---------------------------------------------------------------------------
(* The config file: load_cfg, save_cfg, remember_device, get_default_device. *)

\* CFG_PATH does not exist
MissingFile == [exists |-> FALSE, json |-> NotACfg]
FileOf(cfg) == [exists |-> TRUE, json |-> cfg]

\* lines 95-100: the config read from the file
load_cfg(f) == _migrate_cfg(IF f.exists THEN f.json ELSE EmptyCfg)

\* lines 103-106: the file written for the config
save_cfg(cfg) == FileOf(_migrate_cfg(cfg))

\* line 110: label.strip() if label else "default"
StoredLabel(lbl) == IF Truthy(lbl) THEN strip(lbl.s) ELSE DEFAULT

\* lines 113-115: the entry stored for the device
NewEntry(ble_id, name_hint) ==
    [isdict |-> TRUE, ble_id |-> ble_id,
     name_hint |-> IF Truthy(name_hint) THEN name_hint ELSE Absent]

\* lines 109-118: the file remember_device leaves behind
remember_device(cfg, lbl, ble_id, name_hint, set_default) ==
    LET key == StoredLabel(lbl)
        devices == Put(cfg.devices.items, key, NewEntry(ble_id, name_hint))
        default_device ==
            IF set_default \/ ~Truthy(Get(cfg.default_device))
            THEN Str(key) ELSE cfg.default_device
    IN save_cfg([cfg EXCEPT !.devices = Dict(devices),
                            !.default_device = default_device])

\* lines 123-130: the default entry, NoEntry for the pair (None, None)
get_default_device(cfg) ==
    IF ~Truthy(Get(cfg.default_device)) THEN NoEntry
    ELSE IF ~HasKey(cfg.devices.items, cfg.default_device.s) THEN NoEntry
    ELSE Lookup(cfg.devices.items, cfg.default_device.s)

---------------------------------------------------------------------------
(* mac_to_bytes and send_power. *)

HexDigits ==
    <<"0", "1", "2", "3", "4", "5", "6", "7", "8", "9", "a", "b", "c", "d", "e", "f">>

\* the value of every hex digit
ValueOf ==
    [c \in {HexDigits[i] : i \in 1..Len(HexDigits)} |->
        (CHOOSE i \in 1..Len(HexDigits) : HexDigits[i] = c) - 1]

IsHex(c) == LowerChar(c) \in DOMAIN ValueOf
HexValue(c) == ValueOf[LowerChar(c)]

RECURSIVE FromHex(_)
\* bytes.fromhex of an even number of hex digits
FromHex(s) ==
    IF Len(s) < 2 THEN <<>>
    ELSE <<HexValue(s[1]) * Len(HexDigits) + HexValue(s[2])>> \o FromHex(Tail(Tail(s)))

\* lines 18-22: ok is FALSE for the ValueError
mac_to_bytes(mac) ==
    LET m == strip(Remove(Remove(mac, ":"), "-"))
        ok == Len(m) = MacHexLength /\ \A i \in 1..Len(m) : IsHex(m[i])
    IN [ok |-> ok, bytes |-> IF ok THEN FromHex(m) ELSE <<>>]

\* what a run did on the air: whether it scanned and for which name, the
\* address it connected to, the payload it wrote, how it ended
NotSent(scan_for, outcome) ==
    [scanned |-> scan_for # Absent, scan_for |-> scan_for, connect_to |-> None,
     payload |-> <<>>, outcome |-> outcome]

\* lines 244-255.  fnd is what the scan returns if one is made, link what the
\* connect and write end in: "ok", "not_found" (BleakDeviceNotFoundError) or
\* "ble_error" (any other failure of the BLE layer).
send_power(ble_id, name_substring, my_mac, cmd, fnd, link) ==
    LET direct == Truthy(ble_id)
        pos == find_device(name_substring.s, fnd)
        mac == mac_to_bytes(my_mac.s)
        scan_for == IF direct THEN Absent ELSE name_substring
    IN IF ~direct /\ pos = 0 THEN NotSent(scan_for, "no_match")
       ELSE IF ~mac.ok THEN NotSent(scan_for, "bad_mac")
       ELSE [scanned |-> ~direct,
             scan_for |-> scan_for,
             connect_to |-> IF direct THEN ble_id ELSE fnd[pos].address,
             payload |-> mac.bytes \o <<cmd>>,
             outcome |-> link]

\* lines 309-311, 343-345: --my-mac, else what detect_macos_bluetooth_mac
\* found (None off macOS)
resolve_my_mac(my_mac, detected) == IF Truthy(my_mac) THEN my_mac ELSE detected

\* lines 315, 349
cmd_of(action) == IF action = "on" THEN 1 ELSE 2

---------------------------------------------------------------------------
(* The three commands of main.  Each operator returns the run: the          *)
(* arguments, what the run did (scanned, selected, connect_to, payload,     *)
(* outcome), the call of remember_device it made, and the file it leaves.   *)

NoCall == [called |-> FALSE, lbl |-> None, ble_id |-> None, set_default |-> FALSE]
Call(lbl, ble_id, set_default) ==
    [called |-> TRUE, lbl |-> lbl, ble_id |-> ble_id, set_default |-> set_default]

NoRun ==
    [command |-> "none", ble_id |-> None, name |-> None, my_mac |-> None,
     remember_as |-> None, remember |-> FALSE, set_default |-> FALSE,
     sent |-> NotSent(Absent, "none"), selected |-> None, call |-> NoCall,
     file |-> MissingFile]

\* lines 302-306 and cmd_scan, lines 189-231
scan_run(f, name, remember, remember_as, set_default, fnd) ==
    LET args == [NoRun EXCEPT !.command = "scan", !.name = name,
                              !.remember = remember, !.remember_as = remember_as,
                              !.set_default = set_default, !.file = f]
        pos == find_device(name.s, fnd)
        lbl == derive_label(remember_as, name, fnd[pos])
    IN IF remember /\ ~Truthy(name) THEN [args EXCEPT !.sent = NotSent(Absent, "usage")]
       ELSE IF ~Truthy(name) THEN [args EXCEPT !.sent = NotSent(None, "ok")]
       ELSE IF pos = 0 THEN [args EXCEPT !.sent = NotSent(name, "no_match")]
       ELSE IF ~remember
            THEN [args EXCEPT !.sent = NotSent(name, "ok"), !.selected = fnd[pos].address]
       ELSE [args EXCEPT
                !.sent = NotSent(name, "ok"),
                !.selected = fnd[pos].address,
                !.call = Call(lbl, fnd[pos].address, set_default),
                !.file = remember_device(load_cfg(f), lbl, fnd[pos].address,
                                         name, set_default)]

\* the device is remembered whether or not the send succeeded
power_id_file_unconditional(f, ble_id, remember, remember_as, set_default, outcome) ==
    IF remember
    THEN remember_device(load_cfg(f), derive_label(remember_as, None, PlainId(ble_id.s)),
                         ble_id, None, set_default)
    ELSE f

\* lines 316-324: the file a power-id run leaves, given how send_power ended
power_id_file(f, ble_id, remember, remember_as, set_default, outcome) ==
    IF outcome = "ok" /\ remember
    THEN remember_device(load_cfg(f), derive_label(remember_as, None, PlainId(ble_id.s)),
                         ble_id, None, set_default)
    ELSE f

\* lines 308-325
power_id_run(f, ble_id, my_mac, detected, action, remember, remember_as, set_default, fnd, link) ==
    LET mac == resolve_my_mac(my_mac, detected)
        args == [NoRun EXCEPT !.command = "power-id", !.ble_id = ble_id,
                              !.my_mac = mac, !.remember = remember,
                              !.remember_as = remember_as,
                              !.set_default = set_default, !.file = f]
        sent == send_power(ble_id, Str(<<>>), mac, cmd_of(action), fnd, link)
        after == power_id_file(f, ble_id, remember, remember_as, set_default,
                               sent.outcome)
    IN IF ~Truthy(mac) THEN [args EXCEPT !.sent = NotSent(Absent, "no_mac")]
       ELSE [args EXCEPT
                !.sent = sent,
                !.selected = IF sent.scanned THEN sent.connect_to ELSE None,
                !.call = IF sent.outcome = "ok" /\ remember
                         THEN Call(derive_label(remember_as, None, PlainId(ble_id.s)),
                                   ble_id, set_default)
                         ELSE NoCall,
                !.file = after]

\* lines 331-335: <<ble_id, name_hint>> the power command sends with
resolve_target(cfg, ble_id, name) ==
    LET default_entry == get_default_device(cfg)
    IN IF ~Truthy(ble_id) /\ ~Truthy(name) /\ default_entry # NoEntry
       THEN <<IF Truthy(Get(default_entry.ble_id)) THEN default_entry.ble_id ELSE ble_id,
              IF Truthy(Get(default_entry.name_hint)) THEN default_entry.name_hint ELSE name>>
       ELSE <<ble_id, name>>

\* lines 327-353
power_run(f, ble_id, name, my_mac, detected, action, fnd, link) ==
    LET target == resolve_target(load_cfg(f), ble_id, name)
        mac == resolve_my_mac(my_mac, detected)
        args == [NoRun EXCEPT !.command = "power", !.ble_id = ble_id, !.name = name,
                              !.my_mac = mac, !.file = f]
        sent == send_power(target[1], target[2], mac, cmd_of(action), fnd, link)
    IN IF ~Truthy(target[1]) /\ ~Truthy(target[2])
       THEN [args EXCEPT !.sent = NotSent(Absent, "no_device")]
       ELSE IF ~Truthy(mac) THEN [args EXCEPT !.sent = NotSent(Absent, "no_mac")]
       ELSE [args EXCEPT !.sent = sent,
                         !.selected = IF sent.scanned THEN sent.connect_to ELSE None]

---------------------------------------------------------------------------
(* Each specification leaves the variables of the others at rest. *)

IdleMigrate == raw = NotACfg /\ once = NotACfg /\ twice = NotACfg
IdleLabel == largs = <<>> /\ derived = None
IdleRank == found = <<>> /\ wanted = <<>> /\ chosen = 0
IdleCli == file = MissingFile /\ before = MissingFile /\ last = NoRun /\ runs = 0

---------------------------------------------------------------------------
(* SpecMigrate: _migrate_cfg applied to parsed JSON of every shape, as      *)
(* load_cfg applies it to the file and save_cfg to what load_cfg returned.  *)

Labels == {<<>>, <<"a">>, DEFAULT}

IdValues == {Absent, Str(<<>>), Str(<<"I">>), Num(<<"7">>)}
HintValues == {Absent, Str(<<"N">>)}

RawEntries == {NoEntry} \cup [isdict : {TRUE}, ble_id : IdValues, name_hint : HintValues]

RECURSIVE ItemSeqs(_)
\* the dicts of n items: distinct labels, every order
ItemSeqs(n) ==
    IF n = 0 THEN {<<>>}
    ELSE {Append(s, [label |-> l, entry |-> e]) :
            s \in ItemSeqs(n - 1), l \in Labels, e \in RawEntries}

DistinctKeys(items) == Cardinality(Keys(items)) = Len(items)

RawDevices ==
    {NotADict} \cup
    {Dict(s) : s \in {t \in UNION {ItemSeqs(n) : n \in 0..MaxDevices} : DistinctKeys(t)}}

DefaultValues ==
    {Absent, None, Num(<<"7">>), Str(<<>>), Str(<<"a">>), Str(<<"b">>), Str(DEFAULT)}

RawInputs ==
    {NotACfg} \cup
    [isdict : {TRUE}, devices : RawDevices, default_device : DefaultValues,
     ble_id : {Absent, None, Str(<<>>), Str(<<"L">>)},
     name_hint : {Absent, Str(<<"M">>)}]

InitMigrate ==
    /\ pc = "raw"
    /\ raw \in RawInputs
    /\ once = NotACfg
    /\ twice = NotACfg
    /\ IdleLabel /\ IdleRank /\ IdleCli

\* load_cfg on a file that parses to raw
MigrateOnLoad ==
    /\ pc = "raw"
    /\ once' = load_cfg(FileOf(raw))
    /\ pc' = "loaded"
    /\ UNCHANGED <<raw, twice, lblVars, rankVars, cliVars>>

\* save_cfg on what load_cfg returned: the config goes through _migrate_cfg again
MigrateOnSave ==
    /\ pc = "loaded"
    /\ twice' = save_cfg(once).json
    /\ pc' = "saved"
    /\ UNCHANGED <<raw, once, lblVars, rankVars, cliVars>>

NextMigrate == MigrateOnLoad \/ MigrateOnSave

SpecMigrate == InitMigrate /\ [][NextMigrate]_vars

---------------------------------------------------------------------------
(* SpecLabel: derive_label on every combination of its three arguments. *)

ExplicitLabels == {None, Str(<<>>), Str(<<"e">>), Str(<<" ">>)}
NameHints == {None, Str(<<>>), Str(<<"h">>)}
DeviceArgs ==
    {PlainId(<<>>), PlainId(<<"I">>)} \cup
    {Rich(n, a) : n \in {Absent, None, Str(<<>>), Str(<<"n">>)},
                  a \in {Absent, None, Str(<<"A">>)}}

InitLabel ==
    /\ pc = "args"
    /\ largs \in [explicit_label : ExplicitLabels, name_hint : NameHints,
                   device : DeviceArgs]
    /\ derived = None
    /\ IdleMigrate /\ IdleRank /\ IdleCli

DeriveLabel ==
    /\ pc = "args"
    /\ derived' = derive_label(largs.explicit_label, largs.name_hint, largs.device)
    /\ pc' = "derived"
    /\ UNCHANGED <<largs, migVars, rankVars, cliVars>>

NextLabel == DeriveLabel

SpecLabel == InitLabel /\ [][NextLabel]_vars

---------------------------------------------------------------------------
(* SpecRank: find_device on every scan result of up to MaxFound devices. *)

ScanNames == {None, Str(<<"B", "o">>), Str(<<"Z", "O">>)}
Substrings == {<<"b", "O">>, <<"o">>}
SignalPairs ==
    {<<NoSignal, NoSignal>>, <<Signal(-70), NoSignal>>, <<NoSignal, Signal(-40)>>}
ScanDevices ==
    {Device(n, Str(<<"A">>), s[1], s[2]) : n \in ScanNames, s \in SignalPairs}

\* the sequences over S of length n
SeqsOf(S, n) == [1..n -> S]

InitRank ==
    /\ pc = "scanned"
    /\ found \in UNION {SeqsOf(ScanDevices, n) : n \in 0..MaxFound}
    /\ wanted \in Substrings
    /\ chosen = 0
    /\ IdleMigrate /\ IdleLabel /\ IdleCli

FindDevice ==
    /\ pc = "scanned"
    /\ chosen' = find_device(wanted, found)
    /\ pc' = "ranked"
    /\ UNCHANGED <<found, wanted, migVars, lblVars, cliVars>>

NextRank == FindDevice

SpecRank == InitRank /\ [][NextRank]_vars

---------------------------------------------------------------------------
(* Spec: up to MaxRuns runs of main, one after the other, on a config file  *)
(* that starts missing or in the legacy shape.  A run is one step: the      *)
(* program is single-threaded and nothing else writes the file.             *)

GoodMac ==
    <<"A", "A", ":", "b", "b", ":", "0", "1", ":", "2", "3", ":", "4", "5", ":", "f", "F">>
BadMac == <<"A", "A", ":", "B", "B">>

Speaker1 == Device(Str(<<"B", "o">>), Str(<<"1">>), Signal(-70), NoSignal)
Speaker2 == Device(Str(<<"B", "O">>), Str(<<"2">>), NoSignal, Signal(-40))
Nameless == Device(None, Str(<<"3">>), Signal(-30), NoSignal)

ScanResults == {<<Nameless>>, <<Speaker1, Speaker2>>, <<Nameless, Speaker2, Speaker1>>}

NameArgs == {None, Str(<<"b", "o">>)}
RememberAsArgs == {None, Str(<<" ">>), Str(<<" ", "a", " ">>)}
MyMacArgs == {None, Str(BadMac), Str(GoodMac)}
Detected == {None, Str(GoodMac)}
PowerIdArgs == {Str(<<"2">>)}
BleIdArgs == {None, Str(<<"9">>)}
Links == {"ok", "not_found", "ble_error"}
PowerActions == {"on", "off"}

InitialFiles ==
    {MissingFile, FileOf([EmptyCfg EXCEPT !.name_hint = Str(<<"b", "o">>)])}

Init ==
    /\ pc = "shell"
    /\ file \in InitialFiles
    /\ before = file
    /\ last = NoRun
    /\ runs = 0
    /\ IdleMigrate /\ IdleLabel /\ IdleRank

Ran(r) ==
    /\ last' = r
    /\ file' = r.file
    /\ before' = file
    /\ runs' = runs + 1
    /\ UNCHANGED <<pc, migVars, lblVars, rankVars>>

\* --remember-as and --set-default are read only under --remember
RememberAsWith(remember) == IF remember THEN RememberAsArgs ELSE {None}
SetDefaultWith(remember) == IF remember THEN BOOLEAN ELSE {FALSE}

\* detect_macos_bluetooth_mac is called only without --my-mac
DetectedWith(my_mac) == IF Truthy(my_mac) THEN {None} ELSE Detected

\* send_power scans only without a ble_id
ScansWith(ble_id) == IF Truthy(ble_id) THEN {<<>>} ELSE ScanResults

\* send_power connects only with a MAC that mac_to_bytes accepts
LinksWith(mac) == IF Truthy(mac) /\ mac_to_bytes(mac.s).ok THEN Links ELSE {"ok"}

Scan ==
    /\ pc = "shell"
    /\ runs < MaxRuns
    /\ \E name \in NameArgs, remember \in BOOLEAN, fnd \in ScanResults :
       \E remember_as \in RememberAsWith(remember),
          set_default \in SetDefaultWith(remember) :
        Ran(scan_run(file, name, remember, remember_as, set_default, fnd))

PowerId ==
    /\ pc = "shell"
    /\ runs < MaxRuns
    /\ \E ble_id \in PowerIdArgs, my_mac \in MyMacArgs, action \in PowerActions,
          remember \in BOOLEAN :
       \E detected \in DetectedWith(my_mac),
          remember_as \in RememberAsWith(remember),
          set_default \in SetDefaultWith(remember),
          fnd \in ScansWith(ble_id) :
       \E link \in LinksWith(resolve_my_mac(my_mac, detected)) :
        Ran(power_id_run(file, ble_id, my_mac, detected, action, remember,
                         remember_as, set_default, fnd, link))

Power ==
    /\ pc = "shell"
    /\ runs < MaxRuns
    /\ \E ble_id \in BleIdArgs, name \in NameArgs, my_mac \in MyMacArgs,
          action \in PowerActions :
       \E detected \in DetectedWith(my_mac),
          fnd \in ScansWith(resolve_target(load_cfg(file), ble_id, name)[1]) :
       \E link \in LinksWith(resolve_my_mac(my_mac, detected)) :
        Ran(power_run(file, ble_id, name, my_mac, detected, action, fnd, link))

Next == Scan \/ PowerId \/ Power

Spec == Init /\ [][Next]_vars

---------------------------------------------------------------------------
(* Claims about _migrate_cfg, under SpecMigrate. *)

\* a label, as opposed to none: a non-empty string
IsLabel(v) == IsStr(v) /\ v.s # <<>>

\* C1: whatever _migrate_cfg is given, the default_device it returns is a key
\* of the devices it returns when there are any, and none when there are none.
C1_DefaultNamesADevice ==
    pc # "raw" =>
        IF once.devices.items # <<>>
        THEN IsStr(once.default_device)
             /\ HasKey(once.devices.items, once.default_device.s)
        ELSE once.default_device = None

\* C2: _migrate_cfg is idempotent: applied to its own result it returns that
\* result, the items of devices in the same order.
C2_MigrateIdempotent == pc = "saved" => twice = once

\* a config with legacy flat keys, a dangling default and a devices mapping
\* has been migrated twice, and the first migration changed it
C2_Witness ==
    /\ pc = "saved"
    /\ raw.isdict /\ raw.devices.isdict /\ Len(raw.devices.items) = 2
    /\ raw.ble_id = Str(<<"L">>)
    /\ raw.default_device = Str(<<"b">>)
    /\ once # raw
    /\ twice = once

\* the legacy shape: a truthy top-level ble_id or name_hint, no devices mapping
IsLegacy(cfg) ==
    /\ cfg.isdict
    /\ ~cfg.devices.isdict
    /\ (Truthy(Get(cfg.ble_id)) \/ Truthy(Get(cfg.name_hint)))

\* C3: a legacy config migrates to exactly one entry, under the prior
\* default_device when that is a label and under "default" otherwise, holding
\* the legacy ble_id and name_hint; default_device is that label and the flat
\* keys are gone.
C3_LegacyFolded ==
    (pc # "raw" /\ IsLegacy(raw)) =>
        LET lbl == IF IsLabel(raw.default_device) THEN raw.default_device.s ELSE DEFAULT
        IN /\ once.devices =
                Dict(<<[label |-> lbl,
                        entry |-> [isdict |-> TRUE,
                                   ble_id |-> IF Truthy(Get(raw.ble_id))
                                              THEN raw.ble_id ELSE Absent,
                                   name_hint |-> IF Truthy(Get(raw.name_hint))
                                                 THEN raw.name_hint ELSE Absent]]>>)
           /\ once.default_device = Str(lbl)
           /\ once.ble_id = Absent
           /\ once.name_hint = Absent

\* a legacy config with a prior default has been folded under that label
C3_Witness ==
    /\ pc = "loaded"
    /\ IsLegacy(raw)
    /\ raw.default_device = Str(<<"b">>)
    /\ raw.ble_id = Str(<<"L">>)
    /\ raw.name_hint = Str(<<"M">>)
    /\ once.default_device = Str(<<"b">>)
    /\ Keys(once.devices.items) = {<<"b">>}

---------------------------------------------------------------------------
(* Claims about remember_device and the commands, under Spec. *)

\* the label an entry is to be stored under: the label trimmed, "default"
\* when that is empty
TrimmedOrDefault(lbl) ==
    LET trimmed == IF IsStr(lbl) THEN strip(lbl.s) ELSE <<>>
    IN IF trimmed # <<>> THEN trimmed ELSE DEFAULT

\* the last run called remember_device with a non-empty ble_id
Remembered == last.call.called /\ IsLabel(last.call.ble_id)

\* C4: after remember_device the persisted default_device is the effective
\* label if set_default is true or the store had no default before the call,
\* and the default of before the call otherwise.
C4_DefaultAfterRemember ==
    Remembered =>
        LET prior == load_cfg(before).default_device
        IN file.json.default_device =
            IF last.call.set_default \/ prior = None
            THEN Str(TrimmedOrDefault(last.call.lbl))
            ELSE prior

\* C5: the entry is stored under the trimmed label, under "default" when
\* that is empty, and nothing is ever stored under the empty label.
C5_StoredUnderTrimmedLabel ==
    /\ Remembered =>
        /\ HasKey(file.json.devices.items, TrimmedOrDefault(last.call.lbl))
        /\ Lookup(file.json.devices.items, TrimmedOrDefault(last.call.lbl)).ble_id
            = last.call.ble_id
    /\ ~HasKey(file.json.devices.items, <<>>)

\* the entry the store names as its default, NoEntry when it names none
StoredDefault(cfg) ==
    IF IsStr(cfg.default_device) /\ HasKey(cfg.devices.items, cfg.default_device.s)
    THEN Lookup(cfg.devices.items, cfg.default_device.s)
    ELSE NoEntry

\* the run resolved a target and connected to id without scanning
\* (its host MAC permitting)
WentDirect(run, id) ==
    /\ run.sent.outcome # "no_device"
    /\ ~run.sent.scanned
    /\ run.sent.connect_to # None => run.sent.connect_to = id
    /\ (Truthy(run.my_mac) /\ mac_to_bytes(run.my_mac.s).ok) => run.sent.connect_to = id

\* the run resolved a target and scanned for name (its host MAC permitting)
ScannedFor(run, name) ==
    /\ run.sent.outcome # "no_device"
    /\ run.sent.scanned => run.sent.scan_for = name
    /\ Truthy(run.my_mac) => run.sent.scanned

\* C6: the power command takes --ble-id, else --name, else the stored default
\* entry's ble_id, else its name_hint, and with none of the four fails with
\* a configuration error before any scan, connect or write.
C6_PowerTargetOrder ==
    last.command = "power" =>
        LET entry == StoredDefault(load_cfg(before))
        IN IF IsLabel(last.ble_id) THEN WentDirect(last, last.ble_id)
           ELSE IF IsLabel(last.name) THEN ScannedFor(last, last.name)
           ELSE IF IsLabel(entry.ble_id) THEN WentDirect(last, entry.ble_id)
           ELSE IF IsLabel(entry.name_hint) THEN ScannedFor(last, entry.name_hint)
           ELSE /\ last.sent.outcome = "no_device"
                /\ ~last.sent.scanned
                /\ last.sent.connect_to = None
                /\ last.sent.payload = <<>>

\* a scan --name --remember --set-default that selected a device
RememberedAsDefault(run) ==
    /\ run.command = "scan"
    /\ IsLabel(run.name) /\ run.remember /\ run.set_default
    /\ run.call.called
    /\ run.selected # None

\* a power command with neither --ble-id nor --name and a usable host MAC
PlainPower(run) ==
    /\ run.command = "power"
    /\ ~IsLabel(run.ble_id) /\ ~IsLabel(run.name)
    /\ Truthy(run.my_mac) /\ mac_to_bytes(run.my_mac.s).ok

\* C7: the power command that follows a scan --name --remember --set-default
\* connects to the device that scan selected, and does not scan.
C7_PowerUsesRememberedDevice ==
    [][(RememberedAsDefault(last) /\ runs' = runs + 1 /\ PlainPower(last'))
        => (last'.sent.connect_to = last.selected /\ ~last'.sent.scanned)]_vars

\* C10: a power-id run changes the config file only when its connect and
\* write succeeded; a run whose send failed leaves the file as it was.
C10_RememberOnlyAfterSend ==
    (last.command = "power-id" /\ file # before) =>
        /\ last.sent.outcome = "ok"
        /\ last.sent.connect_to = last.ble_id
        /\ last.sent.payload # <<>>
        /\ last.remember

\* a power-id --remember run whose device was not found, after a run that
\* had written the file
C10_Witness ==
    /\ last.command = "power-id"
    /\ last.remember
    /\ last.sent.outcome = "not_found"
    /\ file.exists
    /\ file.json.devices.items # <<>>
    /\ file = before

---------------------------------------------------------------------------
(* Claims about find_device, under SpecRank. *)

\* a ranks at least as high as b: a present signal above an absent one, a
\* greater signal above a smaller one
AtLeastAsStrong(a, b) ==
    \/ b = NoSignal
    \/ a # NoSignal /\ b # NoSignal /\ a.n >= b.n

\* C8: the device chosen among the name matches has the greatest signal, a
\* present signal ranking above an absent one, and is the earliest in scan
\* order of the matches that rank as high.
C8_StrongestEarliestMatch ==
    pc = "ranked" =>
        LET M == {i \in 1..Len(found) : Matches(found[i], wanted)}
        IN IF M = {} THEN chosen = 0
           ELSE /\ chosen \in M
                /\ \A j \in M :
                    /\ AtLeastAsStrong(get_rssi(found[chosen]), get_rssi(found[j]))
                    /\ AtLeastAsStrong(get_rssi(found[j]), get_rssi(found[chosen]))
                        => chosen <= j

\* the chosen match comes after a match with no signal and before a match of
\* its own strength
C8_Witness ==
    /\ pc = "ranked"
    /\ chosen > 1
    /\ \E j \in 1..(chosen - 1) :
        Matches(found[j], wanted) /\ get_rssi(found[j]) = NoSignal
    /\ \E j \in (chosen + 1)..Len(found) :
        /\ Matches(found[j], wanted)
        /\ get_rssi(found[j]) = get_rssi(found[chosen])
        /\ get_rssi(found[j]) # NoSignal

---------------------------------------------------------------------------
(* Claims about derive_label, under SpecLabel. *)

\* the device is an object with a non-empty name
HasName(device) == ~device.isstr /\ IsLabel(device.name)

\* the device is an identifier string, or an object with an address
HasIdentifier(device) == device.isstr \/ device.address # Absent

RawIdentifier(device) == IF device.isstr THEN Str(device.s) ELSE device.address

\* C9: derive_label returns the first available of the explicit label, the
\* name hint, the device's own name, the device's raw identifier, "default".
C9_LabelPrecedence ==
    pc = "derived" =>
        derived =
            IF IsLabel(largs.explicit_label) THEN largs.explicit_label
            ELSE IF IsLabel(largs.name_hint) THEN largs.name_hint
            ELSE IF HasName(largs.device) THEN largs.device.name
            ELSE IF HasIdentifier(largs.device) THEN RawIdentifier(largs.device)
            ELSE Str(DEFAULT)

\* the explicit label has won over a name hint and a device that has a name
C9_Witness ==
    /\ pc = "derived"
    /\ largs.explicit_label = Str(<<"e">>)
    /\ largs.name_hint = Str(<<"h">>)
    /\ HasName(largs.device)
    /\ derived = Str(<<"e">>)

=============================================================================
